---- MODULE Spec2Model ----
(***************************************************************************)
(* Model of spellbook-generator.py: the dual-source spellbook generator    *)
(* generate_spellbook and the interactive command loop that drives it.     *)
(***************************************************************************)
EXTENDS Integers, Sequences, FiniteSets, TLC

VARIABLES
    primary_spells,    \* argument: catalog, tier -> sequence of spell names
    secondary_spells,  \* argument: catalog
    char_level,        \* argument
    int_modifier,      \* argument
    spellbook,         \* the accumulator, tier -> sequence of spell names
    level, \* loop variable of "for level in range(1, char_level + 1)"
    total_spells,      \* locals of the loop body
    primary_count,
    secondary_count,
    available_levels,
    i, \* index of the running inner "for _ in range(...)"
    spell_level,       \* tier chosen by the last draw (0 before any draw)
    primary_draws,     \* draws made against the primary catalog in this step
    secondary_draws,   \* draws made against the secondary catalog in this step
    result, \* the returned dictionary ("none" before the return)
    pc, \* control position inside generate_spellbook
    main_pc, \* control position inside the command loop
    dir_exists,        \* environment: the spell-lists directory exists
    files, \* environment: the CSV files present in it
    spell_lists,       \* local of select_spell_list: the listing shown
    select_input,      \* text last typed at a selection prompt
    primary_list,      \* file name selected as primary ("none" if unset)
    secondary_list,    \* file name selected as secondary
    level_input,       \* text last typed at the level prompt
    modifier_input,    \* text last typed at the modifier prompt
    exit_reason        \* which break left the loop ("none" while it runs)

GenLocals == <<spellbook, level, total_spells, primary_count, secondary_count,
               available_levels, i, spell_level, primary_draws, secondary_draws,
               result, pc>>

Inputs == <<primary_spells, secondary_spells, char_level, int_modifier>>

MainVars == <<main_pc, dir_exists, files, spell_lists, select_input, primary_list,
              secondary_list, level_input, modifier_input, exit_reason>>

vars == <<Inputs, GenLocals, MainVars>>

----------------------------------------------------------------------------
(* Bounds of the input space *)

MaxLen == 1            \* longest tier list of a catalog
MaxIntModifier == 3    \* largest int_modifier handed to generate_spellbook

(* Program constants *)
MinLevel == 1
MaxLevel == 6
MinModifier == -2
MaxModifier == 2

ReadMagic == "Read Magic"
Tiers == {1, 2, 3}

SpellNames(t) ==
    IF t = 1 THEN {ReadMagic, "Magic Missile"}
    ELSE IF t = 2 THEN {"Web"} ELSE {"Fireball"}

SeqsUpTo(S, n) == UNION {[1..k -> S] : k \in 0..n}

\* the well-formed catalogs: every tier present, tier lists of at most MaxLen names
Catalogs ==
    {(1 :> a) @@ (2 :> b) @@ (3 :> c) :
        a \in SeqsUpTo(SpellNames(1), MaxLen),
        b \in SeqsUpTo(SpellNames(2), MaxLen),
        c \in SeqsUpTo(SpellNames(3), MaxLen)}

Range(s) == {s[k] : k \in 1..Len(s)}

\* Python's None, written as the empty mapping: "not x" holds of both
None == <<>>

Falsy(x) == DOMAIN x = {}

----------------------------------------------------------------------------
(* Pure helpers *)

Max(a, b) == IF a >= b THEN a ELSE b

\* math.ceil(n / d) for d > 0 (\div rounds down)
Ceil(n, d) == (n + d - 1) \div d

\* variant: availability taken from the target level instead of the simulated one
get_available_spell_levels_target(cl) ==
    IF char_level <= 2 THEN <<1>>
    ELSE IF char_level <= 4 THEN <<1, 2>>
    ELSE <<1, 2, 3>>

get_available_spell_levels(cl) ==
    IF cl <= 2 THEN <<1>>
    ELSE IF cl <= 4 THEN <<1, 2>>
    ELSE <<1, 2, 3>>

\* variant: no floor of one spell per step
TotalSpellsUnclamped(im) == 1 + im

TotalSpells(im) == Max(1, 1 + im)

\* variant: rounds down
PrimaryCountFloor(total) == (total * 2) \div 3

\* variant: rounds to nearest
PrimaryCountRound(total) == (total * 2 + 1) \div 3

PrimaryCount(total) == Ceil(total * 2, 3)

\* variant: the membership test is dropped
NotInBookAlways(spell, bucket) == TRUE

\* "spell not in spellbook[spell_level]"
NotInBook(spell, bucket) == \A k \in 1..Len(bucket) : bucket[k] # spell

\* variant: the candidate list is the whole tier list
AvailableSpellsUnfiltered(catalog, sl, book) == catalog[sl]

\* variant: an exhausted tier falls back on the candidates of the other tiers
AvailableSpellsOtherTier(catalog, sl, book) ==
    LET Keep(spell) == NotInBook(spell, book[sl])
        own == SelectSeq(catalog[sl], Keep)
        others == {t \in DOMAIN catalog \ {sl} : catalog[t] # <<>>}
    IN IF own # <<>> \/ others = {} THEN own
       ELSE catalog[CHOOSE t \in others : TRUE]

\* the list comprehension building available_spells
AvailableSpells(catalog, sl, book) ==
    LET Keep(spell) == NotInBook(spell, book[sl])
    IN SelectSeq(catalog[sl], Keep)

\* variant: "Read Magic" is not pre-loaded
InitialSpellbookEmpty == (1 :> <<>>) @@ (2 :> <<>>) @@ (3 :> <<>>)

InitialSpellbook == (1 :> <<ReadMagic>>) @@ (2 :> <<>>) @@ (3 :> <<>>)

\* variant: every tier is returned
AllTiers(book) == book

\* "{level: spells for level, spells in spellbook.items() if spells}"
NonEmptyTiers(book) ==
    LET keep == {t \in DOMAIN book : book[t] # <<>>}
    IN [t \in keep |-> book[t]]

\* where control goes when inner loop number "from" has run n iterations
AfterLoop(from, n, pcount, scount) ==
    IF from = "primary" /\ n < pcount THEN "primary"
    ELSE IF from = "primary" /\ scount > 0 THEN "secondary"
    ELSE IF from = "secondary" /\ n < scount THEN "secondary"
    ELSE "for_level"

----------------------------------------------------------------------------
\* entry of generate_spellbook: "spellbook = {1: ["Read Magic"], 2: [], 3: []}"
EnterGenerate ==
    /\ spellbook = InitialSpellbook
    /\ level = 0
    /\ total_spells = 0
    /\ primary_count = 0
    /\ secondary_count = 0
    /\ available_levels = <<>>
    /\ i = 0
    /\ spell_level = 0
    /\ primary_draws = 0
    /\ secondary_draws = 0
    /\ result = None
    /\ pc = "for_level"

\* generate_spellbook called directly with arguments of the documented domain
Init ==
    /\ primary_spells \in Catalogs
    /\ secondary_spells \in Catalogs
    /\ char_level \in MinLevel..MaxLevel
    /\ int_modifier \in MinModifier..MaxModifier
    /\ EnterGenerate
    /\ main_pc = "generating"
    /\ dir_exists = TRUE
    /\ files = {}
    /\ spell_lists = <<>>
    /\ select_input = "none"
    /\ primary_list = "none"
    /\ secondary_list = "none"
    /\ level_input = "none"
    /\ modifier_input = "none"
    /\ exit_reason = "none"

\* the head of the outer loop and the four assignments that open its body
NextLevel ==
    /\ pc = "for_level"
    /\ level < char_level
    /\ level' = level + 1
    /\ total_spells' = TotalSpells(int_modifier)
    /\ primary_count' = PrimaryCount(total_spells')
    /\ secondary_count' = total_spells' - primary_count'
    /\ available_levels' = get_available_spell_levels(level')
    /\ i' = 0
    /\ primary_draws' = 0
    /\ secondary_draws' = 0
    /\ pc' = IF primary_count' > 0 THEN "primary"
             ELSE IF secondary_count' > 0 THEN "secondary" ELSE "for_level"
    /\ UNCHANGED <<Inputs, MainVars, spellbook, spell_level, result>>

\* one iteration of an inner loop: pick a tier, filter, pick a spell, append
Draw(catalog) ==
    \E ti \in 1..Len(available_levels) :
        LET sl == available_levels[ti] IN
        /\ spell_level' = sl
        /\ IF sl \notin DOMAIN catalog \/ sl \notin DOMAIN spellbook
           THEN /\ pc' = "raised"
                /\ UNCHANGED <<spellbook, i>>
           ELSE /\ LET available_spells == AvailableSpells(catalog, sl, spellbook) IN
                   IF available_spells # <<>>
                   THEN \E si \in 1..Len(available_spells) :
                            spellbook' = [spellbook EXCEPT
                                            ![sl] = Append(@, available_spells[si])]
                   ELSE spellbook' = spellbook
                /\ i' = IF AfterLoop(pc, i + 1, primary_count, secondary_count) = pc
                        THEN i + 1 ELSE 0
                /\ pc' = AfterLoop(pc, i + 1, primary_count, secondary_count)

PrimaryDraw ==
    /\ pc = "primary"
    /\ i < primary_count
    /\ Draw(primary_spells)
    /\ primary_draws' = primary_draws + 1
    /\ UNCHANGED <<Inputs, MainVars, level, total_spells, primary_count, secondary_count,
                   available_levels, secondary_draws, result>>

SecondaryDraw ==
    /\ pc = "secondary"
    /\ i < secondary_count
    /\ Draw(secondary_spells)
    /\ secondary_draws' = secondary_draws + 1
    /\ UNCHANGED <<Inputs, MainVars, level, total_spells, primary_count, secondary_count,
                   available_levels, primary_draws, result>>

Return ==
    /\ pc = "for_level"
    /\ level >= char_level
    /\ result' = NonEmptyTiers(spellbook)
    /\ pc' = "done"
    /\ UNCHANGED <<Inputs, MainVars, spellbook, level, total_spells, primary_count,
                   secondary_count, available_levels, i, spell_level,
                   primary_draws, secondary_draws>>

Next == NextLevel \/ PrimaryDraw \/ SecondaryDraw \/ Return

Spec == Init /\ [][Next]_vars

\* names used only by the one-spell-per-tier catalogs of the exhaustion runs
ExtraNames(t) == IF t = 1 THEN {"Shield"} ELSE IF t = 2 THEN {"Knock"} ELSE {"Haste"}

OneSpellCatalogs ==
    {(1 :> <<a>>) @@ (2 :> <<b>>) @@ (3 :> <<c>>) :
        a \in SpellNames(1) \cup ExtraNames(1),
        b \in SpellNames(2) \cup ExtraNames(2),
        c \in SpellNames(3) \cup ExtraNames(3)}

\* generate_spellbook(primary, secondary, 6, 2) on catalogs of one spell per tier
ExhaustionInit ==
    /\ primary_spells \in OneSpellCatalogs
    /\ secondary_spells \in OneSpellCatalogs
    /\ char_level = MaxLevel
    /\ int_modifier = MaxModifier
    /\ EnterGenerate
    /\ main_pc = "generating"
    /\ dir_exists = TRUE
    /\ files = {}
    /\ spell_lists = <<>>
    /\ select_input = "none"
    /\ primary_list = "none"
    /\ secondary_list = "none"
    /\ level_input = "none"
    /\ modifier_input = "none"
    /\ exit_reason = "none"

\* the interpreter keeps executing the call until it returns or raises
ExhaustionSpec == ExhaustionInit /\ [][Next]_vars /\ WF_vars(Next)

\* generate_spellbook called with modifiers up to MaxIntModifier, beyond those
\* the command loop lets through, on the catalogs of one spell per tier
WideInit ==
    /\ primary_spells \in OneSpellCatalogs
    /\ secondary_spells \in OneSpellCatalogs
    /\ char_level \in MinLevel..MaxLevel
    /\ int_modifier \in MinModifier..MaxIntModifier
    /\ EnterGenerate
    /\ main_pc = "generating"
    /\ dir_exists = TRUE
    /\ files = {}
    /\ spell_lists = <<>>
    /\ select_input = "none"
    /\ primary_list = "none"
    /\ secondary_list = "none"
    /\ level_input = "none"
    /\ modifier_input = "none"
    /\ exit_reason = "none"

WideSpec == WideInit /\ [][Next]_vars

----------------------------------------------------------------------------
(* The command loop and its collaborators *)

FileNames == {"basic.csv", "extra.csv"}

\* the rows of each CSV file, cell by cell as written in the file
FileRows(f) ==
    IF f = "basic.csv"
    THEN << <<"Magic Missile", " Shield ">>, <<"Web", "">>, <<"Fireball">>, <<"Wish">> >>
    ELSE << <<"Read Magic", "Sleep">>, <<" ", "Web">> >>

\* str.strip() on the cells that occur in the files
Strip(cell) ==
    IF cell = " Shield " THEN "Shield"
    ELSE IF cell = " " THEN ""
    ELSE cell

StripRow(row) ==
    LET stripped == [k \in 1..Len(row) |-> Strip(row[k])]
        NonBlank(c) == c # ""
    IN SelectSeq(stripped, NonBlank)

load_spells_from_csv(filename) ==
    IF filename \notin files THEN None
    ELSE LET rows == FileRows(filename)
         IN [t \in Tiers |-> IF t <= Len(rows) THEN StripRow(rows[t]) ELSE <<>>]

\* the texts a user types at a prompt
Tokens == {"abc", "-3", "-2", "0", "1", "2", "+2", "3", "5", "6", "7"}

Parsed(n) == [ok |-> TRUE, value |-> n]

\* int(text): the value, or ok = FALSE where int raises ValueError
ParseInt(tok) ==
    CASE tok = "-3" -> Parsed(-3) [] tok = "-2" -> Parsed(-2)
      [] tok = "0" -> Parsed(0) [] tok = "1" -> Parsed(1) [] tok = "2" -> Parsed(2)
      [] tok = "+2" -> Parsed(2) [] tok = "3" -> Parsed(3)
      [] tok = "5" -> Parsed(5) [] tok = "6" -> Parsed(6) [] tok = "7" -> Parsed(7)
      [] OTHER -> [ok |-> FALSE, value |-> 0]

\* the orders in which glob may list the files present
Listings(S) == {l \in SeqsUpTo(S, Cardinality(S)) : Range(l) = S /\ Len(l) = Cardinality(S)}

\* variant: the upper limit of the level is not tested
ValidLevelNoUpper(v) == ~(v < MinLevel)

ValidLevel(v) == ~(v < MinLevel \/ v > MaxLevel)

ValidModifier(v) == v \in {-2, -1, 0, 1, 2}

IdleLocals ==
    /\ spellbook' = InitialSpellbook
    /\ level' = 0
    /\ total_spells' = 0
    /\ primary_count' = 0
    /\ secondary_count' = 0
    /\ available_levels' = <<>>
    /\ i' = 0
    /\ spell_level' = 0
    /\ primary_draws' = 0
    /\ secondary_draws' = 0
    /\ result' = None

MainInit ==
    /\ primary_spells = None
    /\ secondary_spells = None
    /\ char_level = 0      \* not assigned yet
    /\ int_modifier = 0    \* not assigned yet
    /\ spellbook = InitialSpellbook
    /\ level = 0
    /\ total_spells = 0
    /\ primary_count = 0
    /\ secondary_count = 0
    /\ available_levels = <<>>
    /\ i = 0
    /\ spell_level = 0
    /\ primary_draws = 0
    /\ secondary_draws = 0
    /\ result = None
    /\ pc = "idle"
    /\ main_pc = "select_primary"
    /\ dir_exists \in BOOLEAN
    /\ files \in SUBSET FileNames
    /\ (~dir_exists => files = {})
    /\ spell_lists = <<>>
    /\ select_input = "none"
    /\ primary_list = "none"
    /\ secondary_list = "none"
    /\ level_input = "none"
    /\ modifier_input = "none"
    /\ exit_reason = "none"

\* get_spell_lists and the listing part of select_spell_list; "which" is the
\* break taken by the loop when the selection returns None
SelectList(which, prompt_pc) ==
    IF ~dir_exists \/ files = {}
    THEN /\ dir_exists' = TRUE
         /\ main_pc' = "exit"
         /\ exit_reason' = which
         /\ UNCHANGED <<files, spell_lists>>
    ELSE /\ spell_lists' \in Listings(files)
         /\ main_pc' = prompt_pc
         /\ UNCHANGED <<dir_exists, files, exit_reason>>

\* top of the while loop: select_spell_list("Select PRIMARY ...")
SelectPrimary ==
    /\ main_pc = "select_primary"
    /\ SelectList("no_primary_list", "primary_prompt")
    /\ primary_list' = IF main_pc' = "exit" THEN "None" ELSE primary_list
    /\ level_input' = "none"
    /\ modifier_input' = "none"
    /\ UNCHANGED <<Inputs, GenLocals, select_input, secondary_list>>

\* one pass of the "while True" of select_spell_list for the primary list
PrimaryChoice ==
    /\ main_pc = "primary_prompt"
    /\ \E tok \in Tokens :
         LET choice == ParseInt(tok) IN
         IF choice.ok /\ 1 <= choice.value /\ choice.value <= Len(spell_lists)
         THEN /\ primary_list' = spell_lists[choice.value]
              /\ main_pc' = "select_secondary"
              /\ select_input' = "none"
              /\ spell_lists' = <<>>
         ELSE /\ select_input' = tok
              /\ UNCHANGED <<primary_list, main_pc, spell_lists>>
    /\ UNCHANGED <<Inputs, GenLocals, dir_exists, files, secondary_list,
                   level_input, modifier_input, exit_reason>>

SelectSecondary ==
    /\ main_pc = "select_secondary"
    /\ SelectList("no_secondary_list", "secondary_prompt")
    /\ secondary_list' = IF main_pc' = "exit" THEN "None" ELSE secondary_list
    /\ UNCHANGED <<Inputs, GenLocals, select_input, primary_list, level_input,
                   modifier_input>>

SecondaryChoice ==
    /\ main_pc = "secondary_prompt"
    /\ \E tok \in Tokens :
         LET choice == ParseInt(tok) IN
         IF choice.ok /\ 1 <= choice.value /\ choice.value <= Len(spell_lists)
         THEN /\ secondary_list' = spell_lists[choice.value]
              /\ main_pc' = "load"
              /\ select_input' = "none"
              /\ spell_lists' = <<>>
         ELSE /\ select_input' = tok
              /\ UNCHANGED <<secondary_list, main_pc, spell_lists>>
    /\ UNCHANGED <<Inputs, GenLocals, dir_exists, files, primary_list,
                   level_input, modifier_input, exit_reason>>

\* the two load_spells_from_csv calls and the test that follows them
LoadSpells ==
    /\ main_pc = "load"
    /\ primary_spells' = load_spells_from_csv(primary_list)
    /\ secondary_spells' = load_spells_from_csv(secondary_list)
    /\ IF Falsy(primary_spells') \/ Falsy(secondary_spells')
       THEN main_pc' = "exit" /\ exit_reason' = "load_failed"
       ELSE main_pc' = "level_prompt" /\ UNCHANGED exit_reason
    /\ UNCHANGED <<char_level, int_modifier, GenLocals, dir_exists, files, spell_lists,
                   select_input, primary_list, secondary_list, level_input, modifier_input>>

EnterLevel ==
    /\ main_pc = "level_prompt"
    /\ \E tok \in Tokens :
         /\ level_input' = tok
         /\ LET parsed == ParseInt(tok)
                v == parsed.value IN
            IF ~parsed.ok
            THEN /\ main_pc' = "select_primary"
                 /\ UNCHANGED <<char_level, exit_reason>>
            ELSE /\ char_level' = v
                 /\ IF v = 0
                    THEN main_pc' = "exit" /\ exit_reason' = "quit"
                    ELSE /\ main_pc' = IF ValidLevel(v) THEN "modifier_prompt"
                                       ELSE "select_primary"
                         /\ UNCHANGED exit_reason
    /\ UNCHANGED <<primary_spells, secondary_spells, int_modifier, GenLocals,
                   dir_exists, files, spell_lists, select_input, primary_list,
                   secondary_list, modifier_input>>

\* the modifier prompt and, for a valid modifier, the call of generate_spellbook
EnterModifier ==
    /\ main_pc = "modifier_prompt"
    /\ \E tok \in Tokens :
         /\ modifier_input' = tok
         /\ LET parsed == ParseInt(tok)
                v == parsed.value IN
            IF ~parsed.ok
            THEN /\ main_pc' = "select_primary"
                 /\ UNCHANGED <<int_modifier, GenLocals>>
            ELSE /\ int_modifier' = v
                 /\ IF ValidModifier(v)
                    THEN main_pc' = "generating" /\ IdleLocals /\ pc' = "for_level"
                    ELSE main_pc' = "select_primary" /\ UNCHANGED GenLocals
    /\ UNCHANGED <<primary_spells, secondary_spells, char_level, dir_exists, files,
                   spell_lists, select_input, primary_list, secondary_list,
                   level_input, exit_reason>>

\* generate_spellbook has returned: print the result and loop
PrintSpellbook ==
    /\ main_pc = "generating"
    /\ pc = "done"
    /\ IdleLocals
    /\ pc' = "idle"
    /\ main_pc' = "select_primary"
    /\ UNCHANGED <<Inputs, dir_exists, files, spell_lists, select_input, primary_list,
                   secondary_list, level_input, modifier_input, exit_reason>>

\* environment: while the program waits at a prompt the user adds or removes files
UserEditsDirectory ==
    /\ main_pc \in {"primary_prompt", "secondary_prompt", "level_prompt", "modifier_prompt"}
    /\ dir_exists
    /\ \E f \in FileNames :
         files' = IF f \in files THEN files \ {f} ELSE files \cup {f}
    /\ UNCHANGED <<Inputs, GenLocals, main_pc, dir_exists, spell_lists, select_input,
                   primary_list,
                   secondary_list, level_input, modifier_input, exit_reason>>

MainNext ==
    \/ SelectPrimary \/ PrimaryChoice \/ SelectSecondary \/ SecondaryChoice
    \/ LoadSpells \/ EnterLevel \/ EnterModifier \/ PrintSpellbook
    \/ UserEditsDirectory
    \/ NextLevel \/ PrimaryDraw \/ SecondaryDraw \/ Return

MainSpec == MainInit /\ [][MainNext]_vars

----------------------------------------------------------------------------
(* Properties *)

NoDuplicates(bucket) ==
    \A a, b \in 1..Len(bucket) : a # b => bucket[a] # bucket[b]

\* a step of an inner loop, that is one draw
DrawStep == pc \in {"primary", "secondary"}

DrawnCatalog == IF pc = "primary" THEN primary_spells ELSE secondary_spells

DrawsInStep == primary_draws + secondary_draws

BookSize == Len(spellbook[1]) + Len(spellbook[2]) + Len(spellbook[3])

\* steps the call still has to take: per remaining level the loop head and
\* max(1, 1 + int_modifier) draws, the draws left in this step, and the return
StepsLeft ==
    LET T == IF 1 + int_modifier >= 1 THEN 1 + int_modifier ELSE 1
    IN (char_level - level) * (T + 1)
       + (IF DrawStep THEN T - DrawsInStep ELSE 0)
       + (IF pc = "done" THEN 0 ELSE 1)

\* C1: for every level 1..6, modifier -2..2 and well-formed catalogs the call
\* never raises, it returns (every step brings the return one step closer and
\* a step is possible until it has returned), and the returned tier-1 bucket
\* holds "Read Magic"
C1_ReturnsWithReadMagic ==
    /\ [](pc # "raised")
    /\ [](pc # "done" => StepsLeft > 0 /\ ENABLED Next)
    /\ [][StepsLeft' = StepsLeft - 1]_vars
    /\ [](pc = "done" => 1 \in DOMAIN result /\ ReadMagic \in Range(result[1]))

C1_Witness ==
    /\ pc = "done" /\ char_level = MaxLevel /\ int_modifier = MaxModifier
    /\ ReadMagic \in Range(primary_spells[1])
    /\ Len(result[1]) = 2

\* C2: at every moment of the generation and in the returned spellbook no
\* tier bucket holds the same spell name twice, whatever the catalogs list
C2_NoDuplicateSpells ==
    /\ \A t \in DOMAIN spellbook : NoDuplicates(spellbook[t])
    /\ pc = "done" => \A t \in DOMAIN result : NoDuplicates(result[t])

\* the only step was level 1 with modifier 2: the first primary draw had to add
\* the spell both catalogs list at tier 1, and the secondary draw met it there
C2_Witness ==
    /\ int_modifier = MaxModifier /\ level = 1
    /\ secondary_draws = 1
    /\ primary_spells[1] = secondary_spells[1]
    /\ primary_spells[1] # <<>>
    /\ ReadMagic \notin Range(primary_spells[1])
    /\ Range(secondary_spells[1]) \subseteq Range(spellbook[1])

\* the tier table as the specification states it
ClaimTiers(L) == IF L <= 2 THEN {1} ELSE IF L <= 4 THEN {1, 2} ELSE {1, 2, 3}

\* C3: every tier chosen by a draw at simulated level L is in availableTiers(L),
\* taken from the current simulated level and not from the target level, so a
\* bucket of tier 2 grows only from step 3 on and one of tier 3 from step 5 on
C3_TiersFromSimulatedLevel ==
    [][DrawStep =>
         /\ spell_level' \in ClaimTiers(level)
         /\ \A t \in Tiers : spellbook'[t] # spellbook[t] => t \in ClaimTiers(level)
         /\ (spellbook'[2] # <<>> => level >= 3)
         /\ (spellbook'[3] # <<>> => level >= 5)]_vars

\* target level 6, simulated level 2: tier 1 is exhausted, tier 3 has a spell
\* to offer, and the draw still chose tier 1
C3_Witness ==
    /\ char_level = MaxLevel /\ level = 2 /\ primary_draws = 1
    /\ spell_level = 1
    /\ primary_spells[3] # <<>>
    /\ Range(primary_spells[1]) \subseteq Range(spellbook[1])
    /\ spellbook[3] = <<>>

\* ceil(2 * n / 3), stated without division
ClaimCeilTwoThirds(n) ==
    CHOOSE k \in 0..(2 * n) : 3 * k >= 2 * n /\ 3 * (k - 1) < 2 * n

\* C4: in every step primaryCount = ceil(spellsToAdd * 2/3) and secondaryCount
\* = spellsToAdd - primaryCount (so they add up and secondaryCount >= 0; for 4
\* spells 3 and 1), and all primary draws precede the secondary draws
C4_SplitAndOrder ==
    level >= 1 =>
        /\ primary_count = ClaimCeilTwoThirds(total_spells)
        /\ secondary_count = total_spells - primary_count
        /\ primary_count + secondary_count = total_spells
        /\ secondary_count >= 0
        /\ (total_spells = 4 => primary_count = 3 /\ secondary_count = 1)
        /\ primary_draws <= primary_count
        /\ secondary_draws <= secondary_count
        /\ (pc = "primary" => secondary_draws = 0)
        /\ (secondary_draws > 0 \/ pc = "secondary" => primary_draws = primary_count)
        /\ (pc = "for_level" =>
               primary_draws = primary_count /\ secondary_draws = secondary_count)

C4_Witness ==
    /\ total_spells = 4 /\ primary_draws = 3 /\ secondary_draws = 1
    /\ pc = "for_level"

\* C5: spellsToAdd = max(1, 1 + intModifier) in every step, never below 1 and 1
\* for modifiers -2, -1, 0; each of the characterLevel steps attempts exactly
\* spellsToAdd draws and so adds at most spellsToAdd spells
C5_SpellsPerStep ==
    /\ [](level >= 1 =>
            /\ total_spells = (IF 1 + int_modifier >= 1 THEN 1 + int_modifier ELSE 1)
            /\ total_spells >= 1
            /\ (int_modifier \in {-2, -1, 0} => total_spells = 1)
            /\ DrawsInStep <= total_spells
            /\ (pc \in {"for_level", "done"} => DrawsInStep = total_spells)
            /\ BookSize - 1 <= (level - 1) * total_spells + DrawsInStep)
    /\ [](pc = "done" => level = char_level)
    /\ [][/\ level' \in {level, level + 1}
          /\ (level' = level + 1 => DrawsInStep' = 0)
          /\ BookSize' - BookSize <= DrawsInStep' - (IF level' = level THEN DrawsInStep ELSE 0)
         ]_vars

C5_Witness ==
    /\ int_modifier = MinModifier /\ char_level = MaxLevel /\ pc = "done"
    /\ level = MaxLevel /\ total_spells = 1 /\ BookSize = 4

OneSpellPerTier(catalog) == \A t \in Tiers : Len(catalog[t]) = 1

C6_Pre ==
    /\ char_level = 6 /\ int_modifier = 2
    /\ primary_spells = secondary_spells
    /\ OneSpellPerTier(primary_spells)

DrawsAttempted == IF level = 0 THEN 0 ELSE (level - 1) * 3 + DrawsInStep

\* C6: with a catalog of exactly one spell per tier (given as both sources),
\* level 6 and modifier 2 the call returns without error after its 18 draws,
\* the result holds at most one spell per tier beyond "Read Magic", and a draw
\* on a tier whose single spell is already present is skipped
C6_ExhaustionTerminates ==
    /\ (C6_Pre => <>(pc = "done" /\ DrawsAttempted = 18))
    /\ [](C6_Pre => pc # "raised" /\ DrawsAttempted <= 18)
    /\ [](C6_Pre /\ pc = "done" =>
            /\ Len(result[1]) <= 2
            /\ result[1][1] = ReadMagic
            /\ \A t \in DOMAIN result \ {1} : Len(result[t]) <= 1)
    /\ [][C6_Pre /\ DrawStep
            /\ primary_spells[spell_level'][1] \in Range(spellbook[spell_level'])
          => spellbook' = spellbook /\ DrawsInStep' = DrawsInStep + 1]_vars

\* all three single spells are in the book and the 18 draws are done
C6_Witness ==
    /\ C6_Pre /\ pc = "done"
    /\ Len(result[1]) = 2 /\ DOMAIN result = Tiers

\* C7: a draw whose chosen tier has no catalog spell missing from the bucket
\* changes no bucket, raises nothing and counts as one of the step's draws
C7_ExhaustedDrawSkipped ==
    [][DrawStep /\ Range(DrawnCatalog[spell_level']) \subseteq Range(spellbook[spell_level'])
       => /\ spellbook' = spellbook
          /\ pc' # "raised"
          /\ DrawsInStep' = DrawsInStep + 1]_vars

\* the last draw chose a tier the primary catalog leaves empty although another
\* available tier still had a spell to give
C7_Witness ==
    /\ primary_draws >= 1 /\ secondary_draws = 0
    /\ spell_level \in Tiers
    /\ primary_spells[spell_level] = <<>>
    /\ \E u \in ClaimTiers(level) \ {spell_level} :
          ~(Range(primary_spells[u]) \subseteq Range(spellbook[u]))

AllEmpty(catalog) == \A t \in Tiers : catalog[t] = <<>>

\* C8: the returned spellbook has exactly the tiers with a non-empty bucket,
\* each with its bucket, tier 1 among them; with all catalog tiers empty it is
\* exactly tier 1 = ["Read Magic"]
C8_OnlyNonEmptyTiers ==
    pc = "done" =>
        /\ DOMAIN result = {t \in Tiers : spellbook[t] # <<>>}
        /\ \A t \in DOMAIN result : result[t] = spellbook[t]
        /\ 1 \in DOMAIN result
        /\ (AllEmpty(primary_spells) /\ AllEmpty(secondary_spells) =>
               DOMAIN result = {1} /\ result[1] = <<ReadMagic>>)

C8_Witness ==
    /\ pc = "done" /\ AllEmpty(primary_spells) /\ AllEmpty(secondary_spells)
    /\ char_level = MaxLevel /\ int_modifier = MaxModifier
    /\ DOMAIN result = {1}

\* the texts that denote a level in 1..6 and a modifier in -2..2
ClaimLevelTexts == {"1", "2", "+2", "3", "5", "6"}

ClaimModifierTexts == {"-2", "0", "1", "2", "+2"}

LevelEntered == main_pc = "level_prompt" /\ level_input' # "none"

ModifierEntered == main_pc = "modifier_prompt" /\ modifier_input' # "none"

\* C9: in the command loop generate_spellbook is called only after a level in
\* 1..6 and a modifier in -2..2 were typed; any other text but the level 0
\* sends the loop back to its top without ending it; the loop ends only on
\* level 0, when no spell list can be selected, or when a selected list fails
\* to load
C9_InvalidInputReprompts ==
    [][/\ (pc = "idle" /\ pc' # "idle" =>
             /\ level_input' \in ClaimLevelTexts
             /\ modifier_input' \in ClaimModifierTexts
             /\ char_level' \in 1..6 /\ int_modifier' \in -2..2)
       /\ (LevelEntered /\ level_input' \notin ClaimLevelTexts \cup {"0"} =>
             main_pc' = "select_primary" /\ pc' = "idle")
       /\ (ModifierEntered /\ modifier_input' \notin ClaimModifierTexts =>
             main_pc' = "select_primary" /\ pc' = "idle")
       /\ (main_pc # "exit" /\ main_pc' = "exit" =>
             \/ LevelEntered /\ level_input' = "0"
             \/ main_pc \in {"select_primary", "select_secondary"} /\ files = {}
             \/ main_pc = "load" /\ (primary_list \notin files \/ secondary_list \notin files))
      ]_vars

\* a level of 7 and a modifier of -3 were typed and the loop is prompting again
C9_Witness ==
    /\ main_pc = "primary_prompt"
    /\ char_level = 7 /\ int_modifier = -3

\* the entries of the book that are not the initial "Read Magic"
AddedSpells(t) ==
    {spellbook[t][k] : k \in (IF t = 1 THEN 2 ELSE 1)..Len(spellbook[t])}

====
